---------------------------- MODULE Spec2Model ----------------------------
(***************************************************************************)
(* Sentinel: autonomous web-application security scanner.                  *)
(*                                                                         *)
(* The module holds several state machines that share no state:            *)
(*   SpecScore  - risk scoring and grading of a run's finding list         *)
(*   SpecWorker - the three-phase worker that drives the ten-agent roster  *)
(*   SpecLive   - the live run view (change feed + 2 s polling fallback)   *)
(*   Spec       - the role-based agent harness, its process orchestrator,  *)
(*                the stop operation and the socket client of the          *)
(*                dashboard                                                *)
(*   SpecWire   - the event stream: send_event, the relay, the socket      *)
(*                client's accumulated state                               *)
(*   SpecRows   - the live run view's finding and event lists, fed by      *)
(*                INSERT notifications and by the polling fetch            *)
(*   SpecStep   - one agent's iteration: decision, execute_action,         *)
(*                check_for_vulnerability                                  *)
(*   SpecLaunch - the launch views: target input, launch control, start   *)
(*                request and its reply                                    *)
(*   SpecNetLog - the socket client under a long run of network.request   *)
(*                events                                                   *)
(*   SpecFeed   - the browser feed: screenshots by agent and the hero     *)
(*                image                                                    *)
(*   SpecSessions - the live run view's session list under any sequence   *)
(*                of change notifications and poll responses              *)
(*   SpecCast   - two scans at once: the relay and one socket client per  *)
(*                scan                                                     *)
(*   SpecLoop   - SecurityAgent.run: the ten-iteration work loop           *)
(*   SpecReport - the report page's detailed findings                     *)
(*   SpecApi    - the three API wrapper functions of the dashboard        *)
(* Each specification leaves the variables of the others at their initial  *)
(* value.                                                                  *)
(***************************************************************************)
EXTENDS Integers, Sequences, FiniteSets, TLC

VARIABLES
    \* ---- risk scoring
    findings,        \* severities of the run's findings, in discovery order
    risk_score,      \* report.risk_score
    risk_grade,      \* report.risk_grade
    \* ---- worker (execution plane)
    runStatus,       \* ScanRun.status
    sess,            \* AgentSession.status, per agent type of the roster
    wpc,             \* the worker's position: the stage it is awaiting
    scanEvent,       \* the terminal scan event the worker has emitted
    \* ---- live run view (runs/[id]/page.tsx) and the rows it reads
    dbSessions,      \* agent_sessions rows of the run: id -> row, or NoRow
    feed,            \* change notifications in flight, oldest first
    pollResp,        \* the agent_sessions query response in flight, or NoResp
    sessions,        \* React state `sessions`: the list the view renders
    \* ---- agent harness, process orchestrator, socket client
    activeAgents,    \* AgentOrchestrator.activeAgents: the scan ids it holds
    scanStatus,      \* the backend's scan record: status per scan id
    apc,             \* per agent process: its position in SecurityAgent.run
    iteration,       \* per agent: self.iteration_count
    sent,            \* per agent: what it has emitted (started, terminal)
    ws,              \* useWebSocket state of the dashboard of ScanA
    socket,          \* the dashboard's WebSocket: connecting, open, closed
    isStopping,      \* ScanContent state isStopping
    stopCalls,       \* stop requests served so far
    lastStop,        \* the last stop request: its scan id, the scan's status then
    \* ---- event stream from the agents to the socket client
    link,            \* per agent: its WebSocket to the backend, up or down
    wpos,            \* per agent: its position in the run loop
    wIter,           \* per agent: self.iteration_count
    selfFindings,    \* per agent: self.findings
    sentLog,         \* per agent: the events that went out on its socket
    csock,           \* the client's WebSocket: connecting, open, closed
    client,          \* useWebSocket state, every field
    lost,            \* per agent: one of its events did not reach the client
    \* ---- live run view: findings and run_events rows
    dbFindings,      \* findings rows of the run, in insertion order
    dbEvents,        \* run_events rows of the run, in insertion order
    inserts,         \* INSERT notifications in flight, oldest first
    missed,          \* rows whose INSERT notification was never sent
    fetchPos,        \* fetchData: the query it is awaiting, or idle
    fetchData,       \* fetchData: the rows the awaited query returns
    viewEvents,      \* React state `events`, newest first
    viewFindings,    \* React state `findings`
    \* ---- one agent's iteration
    role,            \* self.role
    page,            \* the browser page: its url and its content
    previous_state,  \* capture_state(page) at the head of the iteration
    decision,        \* the decision get_next_action returned
    spc,             \* position in the iteration
    stepEvents,      \* events sent in the iteration, oldest first
    vulnerability,   \* what check_for_vulnerability returned
    \* ---- the launch views
    launchView,      \* which launch view is mounted
    url,             \* React state `url` (Dashboard: `targetUrl`)
    isStarting,      \* React state `isStarting` (Dashboard: `isLaunching`)
    lpc,             \* "idle", or "waiting" for the reply of the start request
    posted,          \* the targets start requests were issued for
    outcome,         \* the reply of the last start request
    route,           \* where the router is
    alertShown,      \* an alert was shown for the last start request
    \* ---- the API wrappers
    apiCall,         \* the wrapper that is running or ran last
    apiPc,           \* "idle", "fetching" or "settled"
    apiResponse,     \* what fetch settled with
    apiResult,       \* what the wrapper settled with
    apiCalls,        \* wrapper calls made
    apiFetches,      \* fetch calls made
    \* ---- the report page
    reportFindings,  \* report.findings, in discovery order
    detailed,        \* the FindingDetail elements rendered, top to bottom
    \* ---- the work loop of a harness agent
    rpos,            \* position in SecurityAgent.run
    iteration_count, \* self.iteration_count
    decisionKind,    \* what get_next_action made of the LLM call of this iteration
    llmCalls,        \* calls of get_next_action
    actionCalls,     \* calls of execute_action
    iterLog,         \* events sent in the current iteration
    browser,         \* "none", "open" or "closed"
    completeSent,    \* agent.complete was sent
    \* ---- two scans on the socket transport
    castSocks,       \* readyState of each scan's dashboard socket at the relay
    castClients,     \* useWebSocket state of each scan's dashboard
    casts,           \* agent messages relayed
    \* ---- the browser feed
    feedEvents,      \* BrowserFeed props.events, newest first
    selectedAgent,   \* React state `selectedAgent`
    heroScreenshot   \* the hero image rendered

scoreVars == <<findings, risk_score, risk_grade>>
workerVars == <<runStatus, sess, wpc, scanEvent>>
liveVars == <<dbSessions, feed, pollResp, sessions>>
harnessVars == <<activeAgents, scanStatus, apc, iteration, sent, ws, socket,
                 isStopping, stopCalls, lastStop>>
wireVars == <<link, wpos, wIter, selfFindings, sentLog, csock, client, lost>>
rowVars == <<dbFindings, dbEvents, inserts, missed, fetchPos, fetchData,
             viewEvents, viewFindings>>
stepVars == <<role, page, previous_state, decision, spc, stepEvents,
              vulnerability>>
launchVars == <<launchView, url, isStarting, lpc, posted, outcome, route,
                alertShown>>
apiVars == <<apiCall, apiPc, apiResponse, apiResult, apiCalls, apiFetches>>
reportVars == <<reportFindings, detailed>>
loopVars == <<rpos, iteration_count, decisionKind, llmCalls, actionCalls, iterLog, browser, completeSent>>
castVars == <<castSocks, castClients, casts>>
feedVars == <<feedEvents, selectedAgent, heroScreenshot>>
vars == <<scoreVars, workerVars, liveVars, harnessVars, wireVars, rowVars,
          stepVars, launchVars,
          apiVars,
          reportVars,
          loopVars,
          castVars,
          feedVars>>

-----------------------------------------------------------------------------
(* Bounds of the model *)

MaxFindings == 5

\* progress is counted in units of 100 / MaxProgress percent
MaxProgress == 2

\* change notifications that can be in flight at once
MaxFeed == 2

\* iterations of the harness loop that are followed (the code runs ten)
MaxIter == 2

\* stop requests in one behaviour
MaxStops == 2

\* events sent in the event stream, over all agents
MaxSends == 4

\* network.request events in the event stream
MaxRequests == 1

\* rows inserted per table (findings, run_events) of the run
MaxRows == 1

-----------------------------------------------------------------------------
(* Risk scoring and grading (README "The Risk Score") *)

Severities == {"CRITICAL", "HIGH", "MEDIUM", "LOW"}

Grades == {"A", "B", "C", "D", "F"}

Max(a, b) == IF a >= b THEN a ELSE b

\* w(s): penalty points of one finding
Weight(s) ==
    CASE s = "CRITICAL" -> 25
      [] s = "HIGH"     -> 10
      [] s = "MEDIUM"   -> 3
      [] s = "LOW"      -> 1

\* sum of w(s_i) over the finding list, accumulated finding by finding
RECURSIVE Penalty(_)
Penalty(fs) ==
    IF fs = <<>> THEN 0 ELSE Weight(Head(fs)) + Penalty(Tail(fs))

RiskScoreUnclamped(fs) == 100 - Penalty(fs)

RiskScoreByPosition(fs) ==
    Max(0, 100 - (IF fs = <<>> THEN 0 ELSE Len(fs) * Weight(Head(fs))))

\* S = max(0, 100 - sum w(s_i))
RiskScore(fs) == Max(0, 100 - Penalty(fs))

GradeExclusive(s) ==
    IF s > 90 THEN "A"
    ELSE IF s > 75 THEN "B"
    ELSE IF s > 50 THEN "C"
    ELSE IF s > 25 THEN "D"
    ELSE "F"

\* letter grade of a score, thresholds tested from the top
Grade(s) ==
    IF s >= 90 THEN "A"
    ELSE IF s >= 75 THEN "B"
    ELSE IF s >= 50 THEN "C"
    ELSE IF s >= 25 THEN "D"
    ELSE "F"

ScoreInit ==
    /\ findings = <<>>
    /\ risk_score = RiskScore(<<>>)
    /\ risk_grade = Grade(RiskScore(<<>>))

\* An agent reports a finding; the report aggregate is re-evaluated over the
\* updated finding list.
ReportFinding(sev) ==
    /\ Len(findings) < MaxFindings
    /\ findings' = Append(findings, sev)
    /\ risk_score' = RiskScore(findings')
    /\ risk_grade' = Grade(risk_score')

-----------------------------------------------------------------------------
(* Worker orchestration: three ordered phases over the ten-agent roster *)

Phase2Agents ==
    {"exposure", "headers_tls", "cors", "portscan", "sqli", "xss", "auth_abuse"}

Roster == {"spider"} \cup Phase2Agents \cup {"red_team", "llm_analysis"}

TerminalStatuses == {"COMPLETED", "FAILED"}

StageAgentsLLMTogether(stage) ==
    CASE stage = "phase1"  -> {"spider"}
      [] stage = "phase2"  -> Phase2Agents
      [] stage = "phase3a" -> {"red_team", "llm_analysis"}
      [] stage = "phase3b" -> {"llm_analysis"}
      [] OTHER -> {}

\* the agents the worker launches in a stage: Spider, then the seven scanners
\* together, then Red Team, then LLM Analysis
StageAgents(stage) ==
    CASE stage = "phase1"  -> {"spider"}
      [] stage = "phase2"  -> Phase2Agents
      [] stage = "phase3a" -> {"red_team"}
      [] stage = "phase3b" -> {"llm_analysis"}
      [] OTHER -> {}

NextStage(stage) ==
    CASE stage = "phase1"  -> "phase2"
      [] stage = "phase2"  -> "phase3a"
      [] stage = "phase3a" -> "phase3b"
      [] stage = "phase3b" -> "finish"

\* a stage is joined, not raced: it is over once every agent launched in it
\* has reached a terminal status, successes and failures alike
StageJoined(stage) ==
    \A a \in StageAgents(stage) : sess[a] \in TerminalStatuses

RunStatusAfterFailureAborts(a) == "FAILED"

\* the run's status after agent a failed: a FAILED agent is non-fatal
RunStatusAfterFailure(a) == runStatus

WorkerInit ==
    /\ runStatus = "QUEUED"
    /\ sess = [a \in Roster |-> "QUEUED"]
    /\ wpc = "poll"
    /\ scanEvent = "none"

\* the poll loop finds the QUEUED run and starts phase 1
WorkerPickUp ==
    /\ wpc = "poll"
    /\ runStatus = "QUEUED"
    /\ runStatus' = "RUNNING"
    /\ wpc' = "phase1"
    /\ UNCHANGED <<sess, scanEvent>>

\* QUEUED -> RUNNING, with the agent's started event
AgentStarted(a) ==
    /\ runStatus = "RUNNING"
    /\ a \in StageAgents(wpc)
    /\ sess[a] = "QUEUED"
    /\ sess' = [sess EXCEPT ![a] = "RUNNING"]
    /\ UNCHANGED <<runStatus, wpc, scanEvent>>

\* RUNNING -> COMPLETED, with the agent's complete event
AgentCompleted(a) ==
    /\ sess[a] = "RUNNING"
    /\ runStatus = "RUNNING"
    /\ sess' = [sess EXCEPT ![a] = "COMPLETED"]
    /\ UNCHANGED <<runStatus, wpc, scanEvent>>

\* RUNNING -> FAILED, with the agent's error event: an internal error caught
\* at the agent boundary
AgentFailed(a) ==
    /\ sess[a] = "RUNNING"
    /\ runStatus = "RUNNING"
    /\ sess' = [sess EXCEPT ![a] = "FAILED"]
    /\ runStatus' = RunStatusAfterFailure(a)
    /\ UNCHANGED <<wpc, scanEvent>>

\* a running agent observes the halt signal at its next checkpoint
AgentHalted(a) ==
    /\ sess[a] = "RUNNING"
    /\ runStatus = "STOPPED"
    /\ sess' = [sess EXCEPT ![a] = "FAILED"]
    /\ UNCHANGED <<runStatus, wpc, scanEvent>>

\* the awaited stage is over: go on to the next one
StageDone ==
    /\ runStatus = "RUNNING"
    /\ wpc \in {"phase1", "phase2", "phase3a", "phase3b"}
    /\ StageJoined(wpc)
    /\ wpc' = NextStage(wpc)
    /\ UNCHANGED <<runStatus, sess, scanEvent>>

\* after phase 3: the run is COMPLETED and scan.complete is emitted
WorkerFinish ==
    /\ runStatus = "RUNNING"
    /\ wpc = "finish"
    /\ runStatus' = "COMPLETED"
    /\ scanEvent' = "scan.complete"
    /\ wpc' = "done"
    /\ UNCHANGED sess

\* a user-initiated stop: a QUEUED or RUNNING run becomes STOPPED and
\* scan.stopped is emitted; a terminal run is left as it is
WorkerStop ==
    /\ runStatus \in {"QUEUED", "RUNNING"}
    /\ runStatus' = "STOPPED"
    /\ scanEvent' = "scan.stopped"
    /\ wpc' = "done"
    /\ UNCHANGED sess

-----------------------------------------------------------------------------
(* Live run view: Supabase change feed plus the 2 s polling fallback *)

SessionIds == {"s1", "s2"}

NoRow == [status |-> "NONE"]

NoResp == [inFlight |-> FALSE, data |-> <<>>]

Row(id, st, pr) == [id |-> id, status |-> st, progress |-> pr]

\* the rows `select * from agent_sessions where run_id = runId` returns
SelectSessions ==
    LET ids == {id \in SessionIds : dbSessions[id] # NoRow}
        RECURSIVE Rows(_)
        Rows(S) == IF S = {} THEN <<>>
                   ELSE LET id == CHOOSE x \in S : TRUE
                        IN <<dbSessions[id]>> \o Rows(S \ {id})
    IN Rows(ids)

\* prev.findIndex(s => s.id === id): the 1-based index, 0 when absent
FindIndex(list, id) ==
    IF \E i \in 1..Len(list) : list[i].id = id
    THEN CHOOSE i \in 1..Len(list) :
            /\ list[i].id = id
            /\ \A j \in 1..(i - 1) : list[j].id # id
    ELSE 0

\* the agent_sessions change handler: setSessions(prev => ...)
MergeSession(prev, newSession) ==
    LET idx == FindIndex(prev, newSession.id)
    IN IF idx = 0 THEN Append(prev, newSession)
       ELSE [prev EXCEPT ![idx] = newSession]

\* a database write to an agent_sessions row: the change feed carries the new
\* row, unless the notification is missed
WriteSession(row) ==
    /\ dbSessions' = [dbSessions EXCEPT ![row.id] = row]
    /\ \/ /\ Len(feed) < MaxFeed
          /\ feed' = Append(feed, row)
       \/ feed' = feed

LiveInit ==
    /\ dbSessions = [id \in SessionIds |-> NoRow]
    /\ feed = <<>>
    /\ pollResp = NoResp
    /\ sessions = <<>>

\* the worker launches an agent: its session row is created QUEUED
DbSessionCreate(id) ==
    /\ dbSessions[id] = NoRow
    /\ WriteSession(Row(id, "QUEUED", 0))
    /\ UNCHANGED <<pollResp, sessions>>

\* QUEUED -> RUNNING
DbSessionStart(id) ==
    /\ dbSessions[id] # NoRow
    /\ dbSessions[id].status = "QUEUED"
    /\ WriteSession(Row(id, "RUNNING", dbSessions[id].progress))
    /\ UNCHANGED <<pollResp, sessions>>

\* a progress update of a running agent: the percentage only grows
DbSessionProgress(id) ==
    /\ dbSessions[id] # NoRow
    /\ dbSessions[id].status = "RUNNING"
    /\ dbSessions[id].progress < MaxProgress
    /\ WriteSession(Row(id, "RUNNING", dbSessions[id].progress + 1))
    /\ UNCHANGED <<pollResp, sessions>>

\* RUNNING -> COMPLETED | FAILED
DbSessionEnd(id, st) ==
    /\ dbSessions[id] # NoRow
    /\ dbSessions[id].status = "RUNNING"
    /\ WriteSession(Row(id, st, dbSessions[id].progress))
    /\ UNCHANGED <<pollResp, sessions>>

\* the channel delivers the oldest notification to the agent_sessions handler
FeedDeliver ==
    /\ feed # <<>>
    /\ sessions' = MergeSession(sessions, Head(feed))
    /\ feed' = Tail(feed)
    /\ UNCHANGED <<dbSessions, pollResp>>

\* fetchData (initial fetch or interval tick) issues the agent_sessions
\* query: the database answers with the rows it holds now
PollQuery ==
    /\ ~pollResp.inFlight
    /\ pollResp' = [inFlight |-> TRUE, data |-> SelectSessions]
    /\ UNCHANGED <<dbSessions, feed, sessions>>

\* the response arrives: if (sessRes.data) setSessions(sessRes.data)
PollApply ==
    /\ pollResp.inFlight
    /\ sessions' = pollResp.data
    /\ pollResp' = NoResp
    /\ UNCHANGED <<dbSessions, feed>>

\* the query failed: sessRes.data is null and the state is left alone
PollError ==
    /\ pollResp.inFlight
    /\ pollResp' = NoResp
    /\ UNCHANGED <<dbSessions, feed, sessions>>

-----------------------------------------------------------------------------
(* Role-based agent harness, process orchestrator and socket client *)

ScanA == "scanA"

UnknownScan == "scanX"

\* the agents followed, of the five the orchestrator spawns and the socket
\* client pre-registers (ids 1..5)
AgentIds == {1, 2}

NoAgent == 0

Event(type, agentId) == [type |-> type, agentId |-> agentId]

\* the switch on event.type, as far as agent.status goes
AgentStatusAfter(prev, event) ==
    CASE event.type = "agent.started"  -> "started"
      [] event.type = "agent.thinking" -> "thinking"
      [] event.type = "agent.decision" -> "acting"
      [] event.type = "agent.action"   -> "acting"
      [] event.type = "agent.complete" -> "complete"
      [] event.type = "agent.error"    -> "error"
      [] OTHER -> prev.agents[event.agentId]

ScanStatusAfterAgentComplete(prev, event) ==
    IF event.type \in {"scan.complete", "agent.complete"} THEN "completed"
    ELSE IF event.type = "scan.stopped" THEN "stopped"
    ELSE prev.scanStatus

\* the scan-level events
ScanStatusAfter(prev, event) ==
    IF event.type = "scan.complete" THEN "completed"
    ELSE IF event.type = "scan.stopped" THEN "stopped"
    ELSE prev.scanStatus

\* handleEvent: setState(prev => next)
HandleEvent(prev, event) ==
    LET agentId == event.agentId
        known == agentId # NoAgent /\ agentId \in DOMAIN prev.agents
        agents == IF known
                  THEN [prev.agents EXCEPT ![agentId] = AgentStatusAfter(prev, event)]
                  ELSE prev.agents
    IN [prev EXCEPT !.agents = agents, !.scanStatus = ScanStatusAfter(prev, event)]

\* handleAgentMessage: the event goes to every client whose socket is OPEN;
\* the dashboard parses the frame and calls handleEvent
RECURSIVE Broadcast(_, _)
Broadcast(state, events) ==
    IF events = <<>> THEN state
    ELSE Broadcast(IF socket = "open" THEN HandleEvent(state, Head(events)) ELSE state,
                   Tail(events))

Ended == {"done", "crashed", "exited", "killed"}

StopScanFindsAny(scanId) == TRUE

\* stopScan: const agents = this.activeAgents.get(scanId); if (!agents) return;
StopScanFinds(scanId) == scanId \in activeAgents

HarnessInit ==
    /\ activeAgents = {}
    /\ scanStatus = "none"
    /\ apc = [a \in AgentIds |-> "none"]
    /\ iteration = [a \in AgentIds |-> 0]
    /\ sent = [a \in AgentIds |-> [started |-> FALSE, terminal |-> 0]]
    /\ ws = [connected |-> FALSE, scanStatus |-> "running",
             agents |-> [a \in AgentIds |-> "idle"]]
    /\ socket = "none"
    /\ isStopping = FALSE
    /\ stopCalls = 0
    /\ lastStop = [id |-> "none", status |-> "none"]

\* startScan: the agent processes are spawned and registered; the dashboard
\* of the scan mounts and creates its WebSocket
StartScan ==
    /\ scanStatus = "none"
    /\ scanStatus' = "running"
    /\ activeAgents' = activeAgents \cup {ScanA}
    /\ apc' = [a \in AgentIds |-> "spawned"]
    /\ socket' = "connecting"
    /\ UNCHANGED <<iteration, sent, ws, isStopping, stopCalls, lastStop>>

\* ws.onopen: setState(prev => ({ ...prev, connected: true }))
OnOpen(prev) == [prev EXCEPT !.connected = TRUE]

OnCloseResets(prev) ==
    [prev EXCEPT !.connected = FALSE,
                 !.events = <<>>, !.findings = <<>>, !.networkRequests = <<>>]

\* ws.onerror, ws.onclose: setState(prev => ({ ...prev, connected: false }))
OnClose(prev) == [prev EXCEPT !.connected = FALSE]

\* ws.onopen
WsOpen ==
    /\ socket = "connecting"
    /\ socket' = "open"
    /\ ws' = OnOpen(ws)
    /\ UNCHANGED <<activeAgents, scanStatus, apc, iteration, sent, isStopping, stopCalls, lastStop>>

\* ws.onerror / ws.onclose: the socket is gone and is not opened again
WsClose ==
    /\ socket \in {"connecting", "open"}
    /\ socket' = "closed"
    /\ ws' = OnClose(ws)
    /\ UNCHANGED <<activeAgents, scanStatus, apc, iteration, sent, isStopping, stopCalls, lastStop>>

\* run(): send_event('agent.started')
AgentRunStart(a) ==
    /\ apc[a] = "spawned"
    /\ apc' = [apc EXCEPT ![a] = "started"]
    /\ sent' = [sent EXCEPT ![a].started = TRUE]
    /\ ws' = Broadcast(ws, <<Event("agent.started", a)>>)
    /\ UNCHANGED <<activeAgents, scanStatus, iteration, socket, isStopping, stopCalls, lastStop>>

\* run(): browser launch, page.goto(target), first screenshot. A launch or a
\* navigation that raises ends the process: nothing in run() catches it.
AgentOpenTarget(a) ==
    /\ apc[a] = "started"
    /\ \/ /\ apc' = [apc EXCEPT ![a] = "loop"]
          /\ ws' = Broadcast(ws, <<Event("agent.screenshot", a)>>)
       \/ /\ apc' = [apc EXCEPT ![a] = "crashed"]
          /\ ws' = ws
    /\ UNCHANGED <<activeAgents, scanStatus, iteration, sent, socket, isStopping, stopCalls, lastStop>>

\* one pass of the loop up to the decision: get_next_action emits
\* agent.thinking, then agent.thought when the LLM answered; a missing or
\* invalid decision skips the rest of the iteration
AgentThink(a) ==
    /\ apc[a] = "loop"
    /\ iteration[a] < MaxIter
    /\ iteration' = [iteration EXCEPT ![a] = @ + 1]
    /\ \E answered \in BOOLEAN, valid \in BOOLEAN :
          /\ valid => answered
          /\ ws' = Broadcast(ws, <<Event("agent.thinking", a)>> \o
                        (IF answered THEN <<Event("agent.thought", a)>> ELSE <<>>))
          /\ apc' = [apc EXCEPT ![a] = IF valid THEN "decided" ELSE "loop"]
    /\ UNCHANGED <<activeAgents, scanStatus, sent, socket, isStopping, stopCalls, lastStop>>

\* agent.decision, then execute_action: agent.action, and agent.error when the
\* browser action raised
AgentAct(a) ==
    /\ apc[a] = "decided"
    /\ apc' = [apc EXCEPT ![a] = "acted"]
    /\ \E failed \in BOOLEAN :
          /\ ws' = Broadcast(ws, <<Event("agent.decision", a), Event("agent.action", a)>> \o
                        (IF failed THEN <<Event("agent.error", a)>> ELSE <<>>))
          /\ sent' = [sent EXCEPT ![a].terminal =
                        IF failed /\ @ < 2 THEN @ + 1 ELSE @]
    /\ UNCHANGED <<activeAgents, scanStatus, iteration, socket, isStopping, stopCalls, lastStop>>

\* check_for_vulnerability (vulnerability.found on a hit), screenshot, pause
AgentCheck(a) ==
    /\ apc[a] = "acted"
    /\ apc' = [apc EXCEPT ![a] = "loop"]
    /\ \E hit \in BOOLEAN :
          ws' = Broadcast(ws, (IF hit THEN <<Event("vulnerability.found", a)>> ELSE <<>>) \o
                        <<Event("agent.screenshot", a)>>)
    /\ UNCHANGED <<activeAgents, scanStatus, iteration, sent, socket, isStopping, stopCalls, lastStop>>

\* the loop is over: browser.close(), agent.complete, ws.close()
AgentFinish(a) ==
    /\ apc[a] = "loop"
    /\ iteration[a] = MaxIter
    /\ apc' = [apc EXCEPT ![a] = "done"]
    /\ sent' = [sent EXCEPT ![a].terminal = IF @ < 2 THEN @ + 1 ELSE @]
    /\ ws' = Broadcast(ws, <<Event("agent.complete", a)>>)
    /\ UNCHANGED <<activeAgents, scanStatus, iteration, socket, isStopping, stopCalls, lastStop>>

\* proc.on('exit'): handleAgentExit. Once every agent of an active scan has
\* exited the scan is completed: scan.complete goes out and the scan's
\* processes are released.
AgentExit(a) ==
    /\ apc[a] \in {"done", "crashed"}
    /\ apc' = [apc EXCEPT ![a] = "exited"]
    /\ IF ScanA \in activeAgents /\ \A b \in AgentIds : apc'[b] = "exited"
       THEN /\ scanStatus' = "completed"
            /\ activeAgents' = activeAgents \ {ScanA}
            /\ ws' = Broadcast(ws, <<Event("scan.complete", NoAgent)>>)
       ELSE UNCHANGED <<scanStatus, activeAgents, ws>>
    /\ UNCHANGED <<iteration, sent, socket, isStopping, stopCalls, lastStop>>

\* POST /api/scans/{id}/stop -> AgentOrchestrator.stopScan(id). A scan the
\* orchestrator holds is stopped: its processes are killed, its entry is
\* deleted, the scan becomes STOPPED and scan.stopped is emitted.
StopRequest(scanId) ==
    /\ stopCalls < MaxStops
    /\ stopCalls' = stopCalls + 1
    /\ lastStop' = [id |-> scanId,
                    status |-> IF scanId = ScanA THEN scanStatus ELSE "unknown"]
    /\ IF StopScanFinds(scanId)
       THEN /\ apc' = [a \in AgentIds |->
                          IF scanId = ScanA /\ apc[a] \notin Ended
                          THEN "killed" ELSE apc[a]]
            /\ activeAgents' = activeAgents \ {scanId}
            /\ scanStatus' = IF scanId = ScanA THEN "stopped" ELSE scanStatus
            /\ ws' = Broadcast(ws, <<Event("scan.stopped", NoAgent)>>)
       ELSE UNCHANGED <<apc, activeAgents, scanStatus, ws>>
    /\ UNCHANGED <<iteration, sent, socket>>

\* a stop request that does not come from the dashboard's button
StopApi(scanId) ==
    /\ StopRequest(scanId)
    /\ UNCHANGED isStopping

\* the dashboard's Stop button: it calls handleStop while the scan is shown
\* running, and is disabled once isStopping is set
HandleStop ==
    /\ socket # "none"
    /\ ws.scanStatus = "running"
    /\ ~isStopping
    /\ isStopping' = TRUE
    /\ StopRequest(ScanA)

-----------------------------------------------------------------------------
(* Event stream: send_event in the agents, the relay, the client's state *)

\* networkRequests.slice(-100)
NetLogKeep == 100

\* the message send_event builds: type, agentId, data (and the position of
\* the call among the agent's send_event calls)
WireEvent(type, agentId, seq, data, n) ==
    [type |-> type, agentId |-> agentId, seq |-> seq, data |-> data,
     iterations_completed |-> n]

Frame(event) == [json |-> TRUE, event |-> event]

NonJsonFrame == [json |-> FALSE, event |-> WireEvent("", NoAgent, 0, <<>>, 0)]

LastN(list, n) ==
    IF Len(list) <= n THEN list ELSE SubSeq(list, Len(list) - n + 1, Len(list))

EventsAfterPrepend(prev, event) == <<event>> \o prev

\* next.events = [...prev.events, event]
EventsAfter(prev, event) == Append(prev, event)

\* agent.findings under agent.complete and vulnerability.found
AgentFindingsAfter(prev, event) ==
    CASE event.type = "agent.complete"      -> event.data
      [] event.type = "vulnerability.found" -> prev \o event.data
      [] OTHER -> prev

\* agent.role of the agents defaultAgents registers
AgentRole(agentId) ==
    CASE agentId = 1 -> "sqli"
      [] agentId = 2 -> "xss"
      [] OTHER -> "undefined"

\* next.findings under vulnerability.found
FindingsAfter(prev, event) ==
    IF event.type = "vulnerability.found"
    THEN Append(prev, [vuln |-> event.data[1], agentId |-> event.agentId,
                       role |-> AgentRole(event.agentId)])
    ELSE prev

NetworkRequestsAfterUnbounded(prev, event) ==
    IF event.type = "network.request"
    THEN Append(prev, [agentId |-> event.agentId, seq |-> event.seq])
    ELSE prev

\* next.networkRequests under network.request
NetworkRequestsAfter(prev, event) ==
    IF event.type = "network.request"
    THEN Append(LastN(prev, NetLogKeep), [agentId |-> event.agentId, seq |-> event.seq])
    ELSE prev

\* handleEvent on the whole state: HandleEvent gives the statuses, the rest
\* is the log, the findings and the network log
HandleEventState(prev, event) ==
    LET agentId == event.agentId
        known == agentId # NoAgent /\ agentId \in DOMAIN prev.agents
        st == HandleEvent(prev, event)
    IN [st EXCEPT
          !.events = EventsAfter(prev.events, event),
          !.agentFindings =
              IF known
              THEN [prev.agentFindings EXCEPT ![agentId] =
                        AgentFindingsAfter(prev.agentFindings[agentId], event)]
              ELSE prev.agentFindings,
          !.findings = IF known THEN FindingsAfter(prev.findings, event)
                       ELSE prev.findings,
          !.networkRequests =
              IF known THEN NetworkRequestsAfter(prev.networkRequests, event)
              ELSE prev.networkRequests]

\* ws.onmessage: JSON.parse, handleEvent; a frame that does not parse is
\* ignored
OnMessage(prev, frame) ==
    IF frame.json THEN HandleEventState(prev, frame.event) ELSE prev

WireInit ==
    /\ link = [a \in AgentIds |-> "up"]
    /\ wpos = [a \in AgentIds |-> "loop"]
    /\ wIter = [a \in AgentIds |-> 0]
    /\ selfFindings = [a \in AgentIds |-> <<>>]
    /\ sentLog = [a \in AgentIds |-> <<>>]
    /\ csock = "connecting"
    /\ client = [connected |-> FALSE, scanStatus |-> "running",
                 agents |-> [a \in AgentIds |-> "idle"],
                 agentFindings |-> [a \in AgentIds |-> <<>>],
                 events |-> <<>>, findings |-> <<>>, networkRequests |-> <<>>]
    /\ lost = [a \in AgentIds |-> FALSE]

\* network.request events sent so far, over all agents
RequestsSent ==
    LET N(a) == Cardinality({i \in 1..Len(sentLog[a]) :
                                sentLog[a][i].type = "network.request"})
        RECURSIVE Sum(_)
        Sum(S) == IF S = {} THEN 0
                  ELSE LET x == CHOOSE y \in S : TRUE IN N(x) + Sum(S \ {x})
    IN Sum(AgentIds)

\* events sent so far, over all agents
TotalSent ==
    LET RECURSIVE Sum(_)
        Sum(S) == IF S = {} THEN 0
                  ELSE LET x == CHOOSE y \in S : TRUE
                       IN Len(sentLog[x]) + Sum(S \ {x})
    IN Sum(AgentIds)

\* send_event, then the relay (handleAgentMessage) and the client's
\* ws.onmessage. The message goes out on the agent's socket unless json.dumps
\* or ws.send raises: the exception is caught and printed, the event is not
\* sent, and a socket that broke stays broken. The relay passes a sent
\* message on to the client if the client's socket is OPEN; frames reach the
\* client in the order the relay sent them.
SendEvent(a, type, data, n) ==
    /\ TotalSent < MaxSends
    /\ \E raised \in BOOLEAN :
        IF link[a] = "up" /\ ~raised
        THEN LET e == WireEvent(type, a, Len(sentLog[a]) + 1, data, n)
             IN /\ sentLog' = [sentLog EXCEPT ![a] = Append(@, e)]
                /\ link' = link
                /\ IF csock = "open"
                   THEN client' = OnMessage(client, Frame(e)) /\ lost' = lost
                   ELSE client' = client /\ lost' = [lost EXCEPT ![a] = TRUE]
        ELSE /\ link' = [link EXCEPT ![a] = "down"]
             /\ UNCHANGED <<sentLog, client, lost>>

\* the head of an iteration: iteration_count, get_next_action's
\* agent.thinking
WireThink(a) ==
    /\ wpos[a] = "loop"
    /\ wIter[a] < MaxIter
    /\ wIter' = [wIter EXCEPT ![a] = @ + 1]
    /\ wpos' = [wpos EXCEPT ![a] = "check"]
    /\ SendEvent(a, "agent.thinking", <<>>, wIter[a] + 1)
    /\ UNCHANGED <<selfFindings, csock>>

\* page.on('request'): log_request sends network.request
WireRequest(a) ==
    /\ wpos[a] = "check"
    /\ RequestsSent < MaxRequests
    /\ SendEvent(a, "network.request", <<>>, wIter[a])
    /\ UNCHANGED <<wpos, wIter, selfFindings, csock>>

\* the vulnerability agent a detects in its iteration n
Vuln(a, n) == [agent |-> a, iteration |-> n]

\* check_for_vulnerability returned a vulnerability: it is appended to
\* self.findings and sent as vulnerability.found
WireVulnerability(a) ==
    /\ wpos[a] = "check"
    /\ wpos' = [wpos EXCEPT ![a] = "loop"]
    /\ selfFindings' = [selfFindings EXCEPT ![a] = Append(@, Vuln(a, wIter[a]))]
    /\ SendEvent(a, "vulnerability.found", <<Vuln(a, wIter[a])>>, wIter[a])
    /\ UNCHANGED <<wIter, csock>>

\* check_for_vulnerability returned None
WireNoVulnerability(a) ==
    /\ wpos[a] = "check"
    /\ wpos' = [wpos EXCEPT ![a] = "loop"]
    /\ UNCHANGED <<link, wIter, selfFindings, sentLog, csock, client, lost>>

CompleteFindingsNone(a) == <<>>

\* 'findings': self.findings
CompleteFindings(a) == selfFindings[a]

\* after the loop: agent.complete with self.findings and iteration_count
WireComplete(a) ==
    /\ wpos[a] = "loop"
    /\ wIter[a] = MaxIter
    /\ wpos' = [wpos EXCEPT ![a] = "done"]
    /\ SendEvent(a, "agent.complete", CompleteFindings(a), wIter[a])
    /\ UNCHANGED <<wIter, selfFindings, csock>>

\* a frame that is not JSON reaches the client: ws.onmessage ignores it
WireNoise ==
    /\ csock = "open"
    /\ client' = OnMessage(client, NonJsonFrame)
    /\ UNCHANGED <<link, wpos, wIter, selfFindings, sentLog, csock, lost>>

\* ws.onopen
WireOpen ==
    /\ csock = "connecting"
    /\ csock' = "open"
    /\ client' = OnOpen(client)
    /\ UNCHANGED <<link, wpos, wIter, selfFindings, sentLog, lost>>

\* ws.onerror / ws.onclose
WireClose ==
    /\ csock \in {"connecting", "open"}
    /\ csock' = "closed"
    /\ client' = OnClose(client)
    /\ UNCHANGED <<link, wpos, wIter, selfFindings, sentLog, lost>>

\* the effect runs again (its dependencies changed): a new WebSocket is
\* created; the hook's state is the same useState cell
WireReopen ==
    /\ csock = "closed"
    /\ csock' = "connecting"
    /\ UNCHANGED <<link, wpos, wIter, selfFindings, sentLog, client, lost>>

-----------------------------------------------------------------------------
(* Live run view: the findings and run_events lists *)

\* .limit(50) of the run_events query, .slice(0, 50) of the INSERT handler
EventKeep == 50

RowRef(table, id) == [table |-> table, id |-> id]

FirstN(list, n) == IF Len(list) <= n THEN list ELSE SubSeq(list, 1, n)

Reverse(list) == [i \in 1..Len(list) |-> list[Len(list) + 1 - i]]

\* run_events ... .order('created_at', { ascending: false }).limit(50)
SelectEvents == FirstN(Reverse(dbEvents), EventKeep)

\* findings ... .select('*').eq('run_id', runId)
SelectFindings == dbFindings

\* setEvents(prev => [payload.new, ...prev].slice(0, 50))
EventInserted(prev, row) == FirstN(<<row>> \o prev, EventKeep)

\* setFindings(prev => [...prev, payload.new])
FindingInserted(prev, row) == Append(prev, row)

FindingsFetchedIgnored(prev, data) == prev

\* if (findRes.data) setFindings(findRes.data)
FindingsFetched(prev, data) == data

\* if (eventRes.data) setEvents(eventRes.data)
EventsFetched(prev, data) == data

RowsInit ==
    /\ dbFindings = <<>>
    /\ dbEvents = <<>>
    /\ inserts = <<>>
    /\ missed = {}
    /\ fetchPos = "idle"
    /\ fetchData = <<>>
    /\ viewEvents = <<>>
    /\ viewFindings = <<>>

\* INSERT notifications that can be queued for the view at once
MaxPending == 1

\* the INSERT notification of a new row: queued for the view, or missed
Notify(ref) ==
    \/ /\ Len(inserts) < MaxPending
       /\ inserts' = Append(inserts, ref)
       /\ missed' = missed
    \/ /\ inserts' = inserts
       /\ missed' = missed \cup {ref}

\* an agent reports a finding: a findings row is inserted
InsertFinding ==
    /\ Len(dbFindings) < MaxRows
    /\ dbFindings' = Append(dbFindings, Len(dbFindings) + 1)
    /\ Notify(RowRef("findings", Len(dbFindings) + 1))
    /\ UNCHANGED <<dbEvents, fetchPos, fetchData, viewEvents, viewFindings>>

\* an agent emits an event: a run_events row is inserted
InsertEvent ==
    /\ Len(dbEvents) < MaxRows
    /\ dbEvents' = Append(dbEvents, Len(dbEvents) + 1)
    /\ Notify(RowRef("run_events", Len(dbEvents) + 1))
    /\ UNCHANGED <<dbFindings, fetchPos, fetchData, viewEvents, viewFindings>>

\* the channel delivers the oldest INSERT notification to its handler
DeliverInsert ==
    /\ inserts # <<>>
    /\ inserts' = Tail(inserts)
    /\ IF Head(inserts).table = "findings"
       THEN /\ viewFindings' = FindingInserted(viewFindings, Head(inserts).id)
            /\ viewEvents' = viewEvents
       ELSE /\ viewEvents' = EventInserted(viewEvents, Head(inserts).id)
            /\ viewFindings' = viewFindings
    /\ UNCHANGED <<dbFindings, dbEvents, missed, fetchPos, fetchData>>

\* fetchData (first call or interval tick) reaches its run_events query
FetchEvents ==
    /\ fetchPos = "idle"
    /\ fetchPos' = "events"
    /\ fetchData' = SelectEvents
    /\ UNCHANGED <<dbFindings, dbEvents, inserts, missed, viewEvents, viewFindings>>

\* the run_events response: setEvents unless the query failed; then the
\* findings query is issued
FetchFindings(failed) ==
    /\ fetchPos = "events"
    /\ viewEvents' = IF failed THEN viewEvents
                     ELSE EventsFetched(viewEvents, fetchData)
    /\ fetchPos' = "findings"
    /\ fetchData' = SelectFindings
    /\ UNCHANGED <<dbFindings, dbEvents, inserts, missed, viewFindings>>

\* the findings response arrives with data: setFindings(findRes.data)
FetchDone ==
    /\ fetchPos = "findings"
    /\ viewFindings' = FindingsFetched(viewFindings, fetchData)
    /\ fetchPos' = "idle"
    /\ fetchData' = <<>>
    /\ UNCHANGED <<dbFindings, dbEvents, inserts, missed, viewEvents>>

\* the findings query failed: findRes.data is null, nothing is set
FetchFailed ==
    /\ fetchPos = "findings"
    /\ fetchPos' = "idle"
    /\ fetchData' = <<>>
    /\ UNCHANGED <<dbFindings, dbEvents, inserts, missed, viewEvents, viewFindings>>

-----------------------------------------------------------------------------
(* One iteration of SecurityAgent.run: execute_action, check_for_vulnerability *)

(* Strings are sequences of tokens; `x in s` is "the tokens of x occur in s,  *)
(* adjacent and in order".                                                   *)

\* pages longer than this are not acted on again
MaxContent == 2

TargetHost == "target.test"

OtherHost == "other.test"

Roles == {"sqli", "xss"}

Url(host, login) == [host |-> host, login |-> login]

\* decision['value']: the text to fill, or the URL to navigate to (host "" when
\* the value is no URL)
Value(host, text) == [host |-> host, text |-> text]

Payloads ==
    { <<"'">>, <<"'", "OR", "1">>, <<"test">>,
      <<"<script", "alert", ">">>, <<"<b", "hi", ">">>, <<"onerror", "alert">> }

Decisions ==
    [action : {"fill", "click"}, value : {Value("", t) : t \in Payloads}]
    \cup [action : {"navigate"},
          value : {Value(h, t) : h \in {TargetHost, OtherHost}, t \in Payloads}]
    \cup [action : {"hover"}, value : {Value("", <<"test">>)}]

Baselines == { <<"hello">>, <<"hello", "database error">>, <<"MySQL", "docs">> }

\* what the server makes of a character when it HTML-escapes its output
EscapeToken(t) ==
    CASE t = "<script" -> "&lt;script"
      [] t = "<b"      -> "&lt;b"
      [] t = ">"       -> "&gt;"
      [] t = "'"       -> "&#39;"
      [] OTHER -> t

HtmlEscape(text) == [i \in 1..Len(text) |-> EscapeToken(text[i])]

\* str.lower()
LowerToken(t) == IF t = "MySQL" THEN "mysql" ELSE t

Lower(text) == [i \in 1..Len(text) |-> LowerToken(text[i])]

\* x in s
In(x, s) ==
    \E k \in 0..(Len(s) - Len(x)) : \A i \in 1..Len(x) : s[k + i] = x[i]

\* any(x in s for x in xs), for single-token xs
AnyIn(xs, s) == \E i \in 1..Len(s) : s[i] \in xs

sql_indicators ==
    {"sql syntax", "mysql", "postgresql", "sqlite", "database error",
     "you have an error in your sql", "warning: mysql", "unclosed quotation mark"}

SqlSyntax == {"'", "\"", "--", ";", "UNION"}

SuccessIndicators == {"welcome", "dashboard", "logout", "admin panel"}

XssTags == {"<script", "<img", "<svg", "onerror", "onload"}

NoVuln == [type |-> "None", severity |-> "None"]

Vulnerability(type, severity) == [type |-> type, severity |-> severity]

ReflectedOrEscaped(payload, content) ==
    In(payload, content) \/ In(HtmlEscape(payload), content)

\* if payload in current_content
Reflected(payload, content) == In(payload, content)

\* check_for_vulnerability, roles sqli and xss
CheckForVulnerability(r, current_content, current_url, d, prev) ==
    LET payload == d.value.text
    IN CASE r = "sqli" ->
              IF AnyIn(SqlSyntax, payload)
              THEN IF /\ AnyIn(SuccessIndicators, Lower(current_content))
                      /\ (prev.url # current_url \/ ~current_url.login)
                   THEN Vulnerability("SQL Injection - Authentication Bypass", "CRITICAL")
                   ELSE IF AnyIn(sql_indicators, Lower(current_content))
                   THEN Vulnerability("SQL Injection - Error-Based", "HIGH")
                   ELSE NoVuln
              ELSE NoVuln
         [] r = "xss" ->
              IF AnyIn(XssTags, payload) /\ Reflected(payload, current_content)
              THEN Vulnerability("Reflected XSS", "HIGH")
              ELSE NoVuln
         [] OTHER -> NoVuln

\* the pages the target may answer an action with, from the page before it
Responses(base, payload) ==
    { base, base \o payload, base \o HtmlEscape(payload),
      base \o <<"sql syntax">>, <<"welcome">> }

StepInit ==
    /\ role = "none"
    /\ page = [url |-> Url("", FALSE), content |-> <<>>]
    /\ previous_state = [url |-> Url(TargetHost, TRUE), html |-> <<>>]
    /\ decision = [action |-> "none", value |-> Value("", <<>>)]
    /\ spc = "new"
    /\ stepEvents = <<>>
    /\ vulnerability = NoVuln

\* SecurityAgent(agent_id, role, target_url), then run up to the loop: the
\* browser is at the target
StartAgent(r, content) ==
    /\ spc = "new"
    /\ role' = r
    /\ page' = [url |-> Url(TargetHost, TRUE), content |-> content]
    /\ stepEvents' = <<"agent.started">>
    /\ spc' = "observe"
    /\ UNCHANGED <<previous_state, decision, vulnerability>>

\* capture_state, get_next_action returning a valid decision, agent.decision
Decide(d) ==
    /\ spc \in {"observe", "checked"}
    /\ Len(page.content) <= MaxContent
    /\ previous_state' = [url |-> page.url, html |-> page.content]
    /\ decision' = d
    /\ stepEvents' = <<"agent.decision">>
    /\ vulnerability' = NoVuln
    /\ spc' = "decided"
    /\ UNCHANGED <<role, page>>

\* execute_action: agent.action, then page.fill / page.click / page.goto(value);
\* an exception of the browser call is reported as agent.error
ExecuteAction ==
    /\ spc = "decided"
    /\ spc' = "executed"
    /\ \/ /\ decision.action \in {"fill", "click"}
          /\ \E c \in Responses(page.content, decision.value.text),
                login \in BOOLEAN :
                page' = [url |-> Url(page.url.host,
                                     IF decision.action = "click" THEN login
                                     ELSE page.url.login),
                         content |-> c]
          /\ stepEvents' = stepEvents \o <<"agent.action">>
       \/ /\ decision.action = "navigate"
          /\ \E c \in Responses(page.content, decision.value.text) :
                page' = [url |-> Url(decision.value.host, FALSE), content |-> c]
          /\ stepEvents' = stepEvents \o <<"agent.action">>
       \/ /\ decision.action \in {"fill", "click", "navigate"}
          /\ page' = page
          /\ stepEvents' = stepEvents \o <<"agent.action", "agent.error">>
       \/ /\ decision.action \notin {"fill", "click", "navigate"}
          /\ page' = page
          /\ stepEvents' = stepEvents \o <<"agent.action">>
    /\ UNCHANGED <<role, previous_state, decision, vulnerability>>

\* check_for_vulnerability; a vulnerability is sent as vulnerability.found
CheckStep ==
    /\ spc = "executed"
    /\ spc' = "checked"
    /\ vulnerability' = CheckForVulnerability(role, page.content, page.url,
                                              decision, previous_state)
    /\ stepEvents' = IF vulnerability' # NoVuln
                     THEN stepEvents \o <<"vulnerability.found">>
                     ELSE stepEvents
    /\ UNCHANGED <<role, page, previous_state, decision>>

-----------------------------------------------------------------------------
(* The launch views: Home.startRun and Dashboard.handleLaunchScan            *)

(* A typed target is a sequence of tokens: the scheme with its "://", then   *)
(* the characters that follow.                                               *)

LaunchViews == {"home", "landing", "dashboard"}

Targets ==
    { <<>>,
      <<"https://", "a", ".", "b">>,
      <<"http://", "a", ".", "b">>,
      <<"ftp://", "a", ".", "b">>,
      <<"a", ".", "b">>,
      <<"https://", " ", ".", "b">>,
      <<"https://", "localhost">> }

RunIds == {"r1", "r2"}

\* what comes back from the start request: a JSON body with the new id, a JSON
\* body without one (a 2xx or an error status), a body that is no JSON, or no
\* response at all
Replies ==
    [kind : {"ok_id"}, id : RunIds]
    \cup [kind : {"ok_no_id", "status_no_id", "not_json", "network"}, id : {"none"}]

NoReply == [kind |-> "none", id |-> "none"]

\* /^https?:\/\/.+\..+/.test(targetUrl)
UrlPattern(u) ==
    /\ Len(u) >= 4
    /\ u[1] \in {"http://", "https://"}
    /\ \E i \in 3..(Len(u) - 1) : u[i] = "."

\* disabled={...} of the launch control
LaunchDisabled(view, u, starting) ==
    CASE view = "home"      -> starting
      [] view = "landing"   -> starting \/ u = <<>>
      [] view = "dashboard" -> u = <<>> \/ ~UrlPattern(u) \/ starting

LiveView(view, id) ==
    IF view = "dashboard" THEN <<"/dashboard/scan", id>> ELSE <<"/runs", id>>

LaunchRoute == <<"/", "none">>

LaunchInit ==
    /\ launchView = "none"
    /\ url = <<>>
    /\ isStarting = FALSE
    /\ lpc = "idle"
    /\ posted = {}
    /\ outcome = NoReply
    /\ route = LaunchRoute
    /\ alertShown = FALSE

\* a launch view is opened
Mount(view) ==
    /\ launchView = "none"
    /\ launchView' = view
    /\ UNCHANGED <<url, isStarting, lpc, posted, outcome, route, alertShown>>

\* onChange of the target input
SetUrl(u) ==
    /\ launchView # "none"
    /\ route = LaunchRoute
    /\ url' = u
    /\ UNCHANGED <<launchView, isStarting, lpc, posted, outcome, route, alertShown>>

\* Home.startRun up to its fetch, from the button or (landing) the Enter key
StartRun(enterKey) ==
    /\ launchView \in {"home", "landing"}
    /\ route = LaunchRoute
    /\ lpc = "idle"
    /\ IF enterKey THEN launchView = "landing"
       ELSE ~LaunchDisabled(launchView, url, isStarting)
    /\ IF url = <<>>
       THEN UNCHANGED <<isStarting, lpc, posted, outcome, alertShown>>
       ELSE /\ isStarting' = TRUE
            /\ posted' = posted \cup {url}
            /\ lpc' = "waiting"
            /\ outcome' = NoReply
            /\ alertShown' = FALSE
    /\ UNCHANGED <<launchView, url, route>>

\* Home.startRun from the reply on: res.json(), data.run_id, catch
StartRunReply(reply) ==
    /\ launchView \in {"home", "landing"}
    /\ lpc = "waiting"
    /\ lpc' = "idle"
    /\ outcome' = reply
    /\ IF reply.kind \in {"not_json", "network"}
       THEN /\ alertShown' = TRUE
            /\ isStarting' = FALSE
            /\ route' = route
       ELSE /\ route' = IF reply.kind = "ok_id"
                        THEN LiveView(launchView, reply.id) ELSE route
            /\ UNCHANGED <<alertShown, isStarting>>
    /\ UNCHANGED <<launchView, url, posted>>

\* Dashboard.handleLaunchScan up to the fetch of startScan
HandleLaunchScan ==
    /\ launchView = "dashboard"
    /\ route = LaunchRoute
    /\ lpc = "idle"
    /\ ~LaunchDisabled(launchView, url, isStarting)
    /\ isStarting' = TRUE
    /\ posted' = posted \cup {url}
    /\ lpc' = "waiting"
    /\ outcome' = NoReply
    /\ alertShown' = FALSE
    /\ UNCHANGED <<launchView, url, route>>

\* startScan's `if (!response.ok) throw`, then handleLaunchScan's push or catch
HandleLaunchScanReply(reply) ==
    /\ launchView = "dashboard"
    /\ lpc = "waiting"
    /\ lpc' = "idle"
    /\ outcome' = reply
    /\ IF reply.kind \in {"ok_id", "ok_no_id"}
       THEN /\ route' = LiveView(launchView,
                                 IF reply.kind = "ok_id" THEN reply.id
                                 ELSE "undefined")
            /\ UNCHANGED isStarting
       ELSE /\ isStarting' = FALSE
            /\ route' = route
    /\ UNCHANGED <<launchView, url, posted, alertShown>>

-----------------------------------------------------------------------------
(* The API wrappers startScan, getScan and stopScan                          *)

MaxCalls == 2

Wrappers == {"startScan", "getScan", "stopScan"}

StatusTexts == {"OK", "Bad Request", "Not Found", "Internal Server Error"}

\* the body of a response: a JSON text, or a text that is no JSON
Bodies == {"{scan_id}", "{status}", "{}", "<html>"}

\* JSON.parse of the body
ParseJson(body) ==
    CASE body = "{scan_id}" -> [json |-> TRUE, value |-> "scan_id"]
      [] body = "{status}"  -> [json |-> TRUE, value |-> "status"]
      [] body = "{}"        -> [json |-> TRUE, value |-> "empty"]
      [] OTHER              -> [json |-> FALSE, value |-> "none"]

\* fetch resolves with a response whatever its status, or rejects
FetchOutcomes ==
    [kind : {"response"}, ok : BOOLEAN, statusText : StatusTexts, body : Bodies]
    \cup {[kind |-> "rejected", ok |-> FALSE, statusText |-> "", body |-> ""]}

Returned(value) == [kind |-> "return", value |-> value, message |-> <<>>]

Thrown(message) == [kind |-> "throw", value |-> "none", message |-> message]

FailedTo(wrapper) ==
    CASE wrapper = "startScan" -> "Failed to start scan: "
      [] wrapper = "getScan"   -> "Failed to get scan: "
      [] wrapper = "stopScan"  -> "Failed to stop scan: "

\* response.json()
ResponseJson(response) ==
    IF ParseJson(response.body).json
    THEN Returned(ParseJson(response.body).value)
    ELSE Thrown(<<"SyntaxError">>)

WrapperIgnoringOk(wrapper, response) ==
    IF response.kind = "rejected" THEN Thrown(<<"TypeError">>)
    ELSE IF wrapper = "stopScan" THEN Returned("undefined")
    ELSE ResponseJson(response)

\* the body of startScan / getScan / stopScan after `await fetch(...)`
Wrapper(wrapper, response) ==
    IF response.kind = "rejected" THEN Thrown(<<"TypeError">>)
    ELSE IF ~response.ok
    THEN Thrown(<<FailedTo(wrapper), response.statusText>>)
    ELSE IF wrapper = "stopScan" THEN Returned("undefined")
    ELSE ResponseJson(response)

NoResponse == [kind |-> "none", ok |-> FALSE, statusText |-> "", body |-> ""]

ApiInit ==
    /\ apiCall = "none"
    /\ apiPc = "idle"
    /\ apiResponse = NoResponse
    /\ apiResult = Returned("none")
    /\ apiCalls = 0
    /\ apiFetches = 0

\* a caller calls the wrapper, which calls fetch
ApiCall(wrapper) ==
    /\ apiPc \in {"idle", "settled"}
    /\ apiCalls < MaxCalls
    /\ apiCall' = wrapper
    /\ apiPc' = "fetching"
    /\ apiCalls' = apiCalls + 1
    /\ apiFetches' = apiFetches + 1
    /\ apiResponse' = NoResponse
    /\ UNCHANGED apiResult

\* fetch settles and the wrapper runs to its end
ApiSettle(response) ==
    /\ apiPc = "fetching"
    /\ apiPc' = "settled"
    /\ apiResponse' = response
    /\ apiResult' = Wrapper(apiCall, response)
    /\ UNCHANGED <<apiCall, apiCalls, apiFetches>>

-----------------------------------------------------------------------------
(* The report page: detailed findings                                        *)

MaxReport == 4

\* (["CRITICAL", "HIGH", "MEDIUM", "LOW"] as const)
SeverityOrder == <<"CRITICAL", "HIGH", "MEDIUM", "LOW">>

\* a report's findings: the i-th discovered has id i
ReportRows(sevs) == [i \in 1..Len(sevs) |-> [id |-> i, severity |-> sevs[i]]]

ReportInputs == UNION {[1..n -> Severities] : n \in 0..MaxReport}

\* findings.filter(f => f.severity === sev)
Group(fs, sev) == SelectSeq(fs, LAMBDA f : f.severity = sev)

DetailedFindingsUngrouped(fs) == fs

\* SeverityOrder.map(sev => group.map(f => <FindingDetail .../>)), flattened
\* by the renderer
DetailedFindings(fs) ==
    Group(fs, SeverityOrder[1]) \o Group(fs, SeverityOrder[2])
        \o Group(fs, SeverityOrder[3]) \o Group(fs, SeverityOrder[4])

ReportInit ==
    /\ reportFindings = <<>>
    /\ detailed = <<>>

\* the report is fetched and the page rendered
LoadReport(sevs) ==
    /\ reportFindings' = ReportRows(sevs)
    /\ detailed' = DetailedFindings(reportFindings')

-----------------------------------------------------------------------------
(* SecurityAgent.run: the work loop                                          *)

\* for iteration in range(10)
Iterations == 10

\* what the LLM call of an iteration comes to: a decision with all four
\* fields, a text without a JSON object, a JSON object that lacks a field (or
\* does not parse), or an exception of the call
DecisionKinds == {"valid", "no_json", "missing_field", "raised"}

\* events get_next_action sends before it returns
ThoughtEvents(kind) ==
    IF kind = "raised" THEN {"agent.thinking"}
    ELSE {"agent.thinking", "agent.thought"}

DecisionAlwaysValid(kind) == TRUE

\* get_next_action returns a decision (not None)
DecisionValid(kind) == kind = "valid"

LoopInit ==
    /\ rpos = "new"
    /\ iteration_count = 0
    /\ decisionKind = "none"
    /\ llmCalls = 0
    /\ actionCalls = 0
    /\ iterLog = {}
    /\ browser = "none"
    /\ completeSent = FALSE

\* agent.started, browser launch, page.goto(target_url), first screenshot
RunStart ==
    /\ rpos = "new"
    /\ rpos' = "loop"
    /\ browser' = "open"
    /\ UNCHANGED <<iteration_count, decisionKind, llmCalls, actionCalls, iterLog,
                   completeSent>>

\* the launch or the first page.goto raises: run is left by the exception
RunStartRaises ==
    /\ rpos = "new"
    /\ rpos' = "aborted"
    /\ browser' = "closed"
    /\ UNCHANGED <<iteration_count, decisionKind, llmCalls, actionCalls, iterLog,
                   completeSent>>

\* head of the loop: capture_state raises (page.title, page.content, ...)
CaptureStateRaises ==
    /\ rpos = "loop"
    /\ iteration_count < Iterations
    /\ iteration_count' = iteration_count + 1
    /\ decisionKind' = "none"
    /\ iterLog' = {}
    /\ rpos' = "aborted"
    /\ browser' = "closed"
    /\ UNCHANGED <<llmCalls, actionCalls, completeSent>>

\* head of the loop: capture_state, get_next_action; `if not decision: continue`,
\* else agent.decision
GetNextAction(kind) ==
    /\ rpos = "loop"
    /\ iteration_count < Iterations
    /\ iteration_count' = iteration_count + 1
    /\ decisionKind' = kind
    /\ llmCalls' = llmCalls + 1
    /\ IF DecisionValid(kind)
       THEN /\ iterLog' = ThoughtEvents(kind) \cup {"agent.decision"}
            /\ rpos' = "decided"
       ELSE /\ iterLog' = ThoughtEvents(kind)
            /\ rpos' = "loop"
    /\ UNCHANGED <<actionCalls, browser, completeSent>>

\* execute_action: agent.action, the browser call, agent.error if it raises
RunExecuteAction(raised) ==
    /\ rpos = "decided"
    /\ actionCalls' = actionCalls + 1
    /\ iterLog' = iterLog \cup {"agent.action"}
                    \cup (IF raised THEN {"agent.error"} ELSE {})
    /\ rpos' = "executed"
    /\ UNCHANGED <<iteration_count, decisionKind, llmCalls, browser, completeSent>>

\* check_for_vulnerability, vulnerability.found, take_screenshot, sleep
RunCheck(found, shot) ==
    /\ rpos = "executed"
    /\ iterLog' = iterLog \cup (IF found THEN {"vulnerability.found"} ELSE {})
                    \cup (IF shot THEN {"agent.screenshot"} ELSE {})
    /\ rpos' = "loop"
    /\ UNCHANGED <<iteration_count, decisionKind, llmCalls, actionCalls, browser,
                   completeSent>>

\* check_for_vulnerability raises (page.content while the page navigates)
RunCheckRaises ==
    /\ rpos = "executed"
    /\ rpos' = "aborted"
    /\ browser' = "closed"
    /\ UNCHANGED <<iteration_count, decisionKind, llmCalls, actionCalls, iterLog,
                   completeSent>>

\* the loop is exhausted: browser.close()
RunClose ==
    /\ rpos = "loop"
    /\ iteration_count = Iterations
    /\ browser' = "closed"
    /\ rpos' = "closed"
    /\ UNCHANGED <<iteration_count, decisionKind, llmCalls, actionCalls, iterLog,
                   completeSent>>

\* agent.complete, ws.close()
RunComplete ==
    /\ rpos = "closed"
    /\ completeSent' = TRUE
    /\ rpos' = "ended"
    /\ UNCHANGED <<iteration_count, decisionKind, llmCalls, actionCalls, iterLog,
                   browser>>

-----------------------------------------------------------------------------
(* Two scans at once on the socket transport                                 *)

MaxCasts == 3

ScanB == "scanB"

BothScans == {ScanA, ScanB}

CastTypes == {"agent.started", "vulnerability.found", "agent.complete"}

\* what handleAgentMessage sends: { scanId, ...message, timestamp }
CastEvent(scanId, type, agentId, seq) ==
    [scanId |-> scanId, type |-> type, agentId |-> agentId, seq |-> seq,
     data |-> IF type = "agent.started" THEN <<>>
              ELSE <<[scan |-> scanId, agent |-> agentId]>>,
     iterations_completed |-> 0]

\* this.wss.clients.forEach(client => { if (client.readyState === 1) ... })
Receivers(scanId, socks) == {c \in DOMAIN socks : socks[c] = "open"}

CastInit ==
    /\ castSocks = [s \in BothScans |-> "connecting"]
    /\ castClients =
        [s \in BothScans |->
            [connected |-> FALSE, scanStatus |-> "running",
             agents |-> [a \in AgentIds |-> "idle"],
             agentFindings |-> [a \in AgentIds |-> <<>>],
             events |-> <<>>, findings |-> <<>>, networkRequests |-> <<>>]]
    /\ casts = 0

\* the dashboard of scan s: new WebSocket(`${WS_URL}/ws/${scanId}`) opens
CastOpen(s) ==
    /\ castSocks[s] = "connecting"
    /\ castSocks' = [castSocks EXCEPT ![s] = "open"]
    /\ castClients' = [castClients EXCEPT ![s] = OnOpen(@)]
    /\ UNCHANGED casts

\* an agent of scan s sends a message: handleAgentMessage(scanId, message),
\* and every receiver's ws.onmessage
HandleAgentMessage(s, a, type) ==
    /\ casts < MaxCasts
    /\ casts' = casts + 1
    /\ castClients' =
        [c \in BothScans |->
            IF c \in Receivers(s, castSocks)
            THEN OnMessage(castClients[c], Frame(CastEvent(s, type, a, casts + 1)))
            ELSE castClients[c]]
    /\ UNCHANGED castSocks

-----------------------------------------------------------------------------
(* The session list of the live run view under any notifications             *)

\* a row of agent_sessions of this run, as a notification's payload.new or in
\* a poll response
SessionRows ==
    {Row(id, st, pr) : id \in SessionIds,
                       st \in {"QUEUED", "RUNNING", "COMPLETED", "FAILED"},
                       pr \in 0..MaxProgress}

\* payload.new of a DELETE notification: an object without fields
DeletedPayload == [id |-> "undefined", status |-> "undefined", progress |-> 0]

\* the results of `select * from agent_sessions where run_id = runId`: at most
\* one row per id
SessionLists ==
    {<<>>} \cup {<<r>> : r \in SessionRows}
    \cup {<<r1, r2>> : r1 \in {r \in SessionRows : r.id = "s1"},
                       r2 \in {r \in SessionRows : r.id = "s2"}}
    \cup {<<r2, r1>> : r1 \in {r \in SessionRows : r.id = "s1"},
                       r2 \in {r \in SessionRows : r.id = "s2"}}

\* an INSERT or UPDATE notification of agent_sessions reaches the handler
SessionChanged(row) ==
    /\ sessions' = MergeSession(sessions, row)
    /\ UNCHANGED <<dbSessions, feed, pollResp>>

\* a DELETE notification of agent_sessions reaches the same handler
SessionDeleted ==
    /\ sessions' = MergeSession(sessions, DeletedPayload)
    /\ UNCHANGED <<dbSessions, feed, pollResp>>

\* a poll response: if (sessRes.data) setSessions(sessRes.data)
SessionsFetched(rows) ==
    /\ sessions' = rows
    /\ UNCHANGED <<dbSessions, feed, pollResp>>

-----------------------------------------------------------------------------
(* The browser feed                                                          *)

MaxShots == 3

FeedAgents == {"spider", "xss"}

NoSelection == "null"

NoEntry == [agentType |-> "undefined", timestamp |-> 0]

\* a run event: the n-th of the run, a screenshot with an image or not
FeedEvent(agent, type, n) ==
    [agent_type |-> agent, event_type |-> type, created_at |-> n]

ScreenshotEntry(event) ==
    [agentType |-> event.agent_type, timestamp |-> event.created_at]

\* [...events].reverse()
Chronological(events) == [i \in 1..Len(events) |-> events[Len(events) - i + 1]]

\* Map.set: a new key goes to the end, a key already there keeps its place
\* and takes the new value
MapSet(map, key, value) ==
    IF \E i \in 1..Len(map) : map[i].key = key
    THEN [i \in 1..Len(map) |->
            IF map[i].key = key THEN [key |-> key, value |-> value] ELSE map[i]]
    ELSE Append(map, [key |-> key, value |-> value])

\* Map.get
MapGet(map, key) ==
    IF \E i \in 1..Len(map) : map[i].key = key
    THEN (CHOOSE e \in {map[i] : i \in 1..Len(map)} : e.key = key).value
    ELSE NoEntry

\* screenshotsByAgent after the loop over the chronological events
RECURSIVE ScreenshotsByAgent(_, _)
ScreenshotsByAgent(map, chrono) ==
    IF chrono = <<>> THEN map
    ELSE LET event == Head(chrono)
         IN ScreenshotsByAgent(
                IF event.event_type = "SCREENSHOT"
                THEN MapSet(map, event.agent_type, ScreenshotEntry(event))
                ELSE map,
                Tail(chrono))

\* heroScreenshot
Hero(events, selected) ==
    LET byAgent == ScreenshotsByAgent(<<>>, Chronological(events))
    IN IF selected # NoSelection THEN MapGet(byAgent, selected)
       ELSE IF byAgent = <<>> THEN NoEntry
       ELSE byAgent[Len(byAgent)].value

FeedInit ==
    /\ feedEvents = <<>>
    /\ selectedAgent = NoSelection
    /\ heroScreenshot = NoEntry

\* a run event arrives at the head of the list and the feed renders
FeedNewEvent(agent, type) ==
    /\ Len(feedEvents) < MaxShots
    /\ feedEvents' = <<FeedEvent(agent, type, Len(feedEvents) + 1)>> \o feedEvents
    /\ heroScreenshot' = Hero(feedEvents', selectedAgent)
    /\ UNCHANGED selectedAgent

\* setSelectedAgent
FeedSelect(selected) ==
    /\ selectedAgent' = selected
    /\ heroScreenshot' = Hero(feedEvents, selected)
    /\ UNCHANGED feedEvents

-----------------------------------------------------------------------------
(* The socket client under a long run of network.request events             *)

\* events received in one behaviour
MaxNetEvents == 104

\* events other than network.request among them
MaxOthers == 1

OthersReceived ==
    Cardinality({i \in 1..Len(client.events) :
                    client.events[i].type # "network.request"})

\* the agent whose page sends the n-th event
SenderOf(n) == IF n % 2 = 1 THEN 1 ELSE 2

\* ws.onmessage with a network.request event of an agent (log_request)
NetRequestReceived ==
    /\ Len(client.events) < MaxNetEvents
    /\ LET n == Len(client.events) + 1
       IN client' = OnMessage(client,
                        Frame(WireEvent("network.request", SenderOf(n), n, <<>>, 0)))
    /\ UNCHANGED <<link, wpos, wIter, selfFindings, sentLog, csock, lost>>

\* ws.onmessage with another event of an agent
NetOtherReceived ==
    /\ Len(client.events) < MaxNetEvents
    /\ OthersReceived < MaxOthers
    /\ LET n == Len(client.events) + 1
       IN client' = OnMessage(client,
                        Frame(WireEvent("agent.thinking", SenderOf(n), n, <<>>, 0)))
    /\ UNCHANGED <<link, wpos, wIter, selfFindings, sentLog, csock, lost>>

-----------------------------------------------------------------------------
(* Specifications *)

Init == ScoreInit /\ WorkerInit /\ LiveInit /\ HarnessInit /\ WireInit
        /\ RowsInit /\ StepInit /\ LaunchInit /\ ApiInit /\ ReportInit /\ LoopInit /\ CastInit /\ FeedInit

NotScore == UNCHANGED <<workerVars, liveVars, harnessVars, wireVars, rowVars, stepVars, launchVars, apiVars, reportVars, loopVars, castVars, feedVars>>

NextScore ==
    \/ \E sev \in Severities : ReportFinding(sev) /\ NotScore

SpecScore == Init /\ [][NextScore]_vars

NotWorker == UNCHANGED <<scoreVars, liveVars, harnessVars, wireVars, rowVars, stepVars, launchVars, apiVars, reportVars, loopVars, castVars, feedVars>>

NextWorkerProgress ==
    \/ WorkerPickUp /\ NotWorker
    \/ \E a \in Roster : AgentStarted(a) /\ NotWorker
    \/ \E a \in Roster : AgentCompleted(a) /\ NotWorker
    \/ \E a \in Roster : AgentFailed(a) /\ NotWorker
    \/ \E a \in Roster : AgentHalted(a) /\ NotWorker
    \/ StageDone /\ NotWorker
    \/ WorkerFinish /\ NotWorker

NextWorker ==
    \/ NextWorkerProgress
    \/ WorkerStop /\ NotWorker

SpecWorker == Init /\ [][NextWorker]_vars

\* the worker and its agents are tasks of one event loop that keeps running
\* them; a stop is the user's choice
SpecWorkerFair == SpecWorker /\ WF_vars(NextWorkerProgress)

NotLive == UNCHANGED <<scoreVars, workerVars, harnessVars, wireVars, rowVars, stepVars, launchVars, apiVars, reportVars, loopVars, castVars, feedVars>>

NextLive ==
    \/ \E id \in SessionIds : DbSessionCreate(id) /\ NotLive
    \/ \E id \in SessionIds : DbSessionStart(id) /\ NotLive
    \/ \E id \in SessionIds : DbSessionProgress(id) /\ NotLive
    \/ \E id \in SessionIds, st \in TerminalStatuses : DbSessionEnd(id, st) /\ NotLive
    \/ FeedDeliver /\ NotLive
    \/ PollQuery /\ NotLive
    \/ PollApply /\ NotLive
    \/ PollError /\ NotLive

SpecLive == Init /\ [][NextLive]_vars

NotHarness == UNCHANGED <<scoreVars, workerVars, liveVars, wireVars, rowVars, stepVars, launchVars, apiVars, reportVars, loopVars, castVars, feedVars>>

Next ==
    \/ StartScan /\ NotHarness
    \/ WsOpen /\ NotHarness
    \/ WsClose /\ NotHarness
    \/ \E a \in AgentIds : AgentRunStart(a) /\ NotHarness
    \/ \E a \in AgentIds : AgentOpenTarget(a) /\ NotHarness
    \/ \E a \in AgentIds : AgentThink(a) /\ NotHarness
    \/ \E a \in AgentIds : AgentAct(a) /\ NotHarness
    \/ \E a \in AgentIds : AgentCheck(a) /\ NotHarness
    \/ \E a \in AgentIds : AgentFinish(a) /\ NotHarness
    \/ \E a \in AgentIds : AgentExit(a) /\ NotHarness
    \/ \E id \in {ScanA, UnknownScan} : StopApi(id) /\ NotHarness
    \/ HandleStop /\ NotHarness

Spec == Init /\ [][Next]_vars

NotWire == UNCHANGED <<scoreVars, workerVars, liveVars, harnessVars, rowVars, stepVars, launchVars, apiVars, reportVars, loopVars, castVars, feedVars>>

NextWire ==
    \/ \E a \in AgentIds : WireThink(a) /\ NotWire
    \/ \E a \in AgentIds : WireRequest(a) /\ NotWire
    \/ \E a \in AgentIds : WireVulnerability(a) /\ NotWire
    \/ \E a \in AgentIds : WireNoVulnerability(a) /\ NotWire
    \/ \E a \in AgentIds : WireComplete(a) /\ NotWire
    \/ WireNoise /\ NotWire
    \/ WireOpen /\ NotWire
    \/ WireClose /\ NotWire
    \/ WireReopen /\ NotWire

SpecWire == Init /\ [][NextWire]_vars

NotRows == UNCHANGED <<scoreVars, workerVars, liveVars, harnessVars, wireVars, stepVars, launchVars, apiVars, reportVars, loopVars, castVars, feedVars>>

NextRows ==
    \/ InsertFinding /\ NotRows
    \/ InsertEvent /\ NotRows
    \/ DeliverInsert /\ NotRows
    \/ FetchEvents /\ NotRows
    \/ \E failed \in BOOLEAN : FetchFindings(failed) /\ NotRows
    \/ FetchDone /\ NotRows
    \/ FetchFailed /\ NotRows

SpecRows == Init /\ [][NextRows]_vars

NotStep ==
    UNCHANGED <<scoreVars, workerVars, liveVars, harnessVars, wireVars, rowVars,
                launchVars, apiVars, reportVars, loopVars, castVars, feedVars>>

NotLaunch ==
    UNCHANGED <<scoreVars, workerVars, liveVars, harnessVars, wireVars, rowVars,
                stepVars, apiVars, reportVars, loopVars, castVars, feedVars>>

NextLaunch ==
    \/ \E view \in LaunchViews : Mount(view) /\ NotLaunch
    \/ \E u \in Targets : SetUrl(u) /\ NotLaunch
    \/ \E enterKey \in BOOLEAN : StartRun(enterKey) /\ NotLaunch
    \/ \E reply \in Replies : StartRunReply(reply) /\ NotLaunch
    \/ HandleLaunchScan /\ NotLaunch
    \/ \E reply \in Replies : HandleLaunchScanReply(reply) /\ NotLaunch

SpecLaunch == Init /\ [][NextLaunch]_vars

NextStep ==
    \/ \E r \in Roles, content \in Baselines : StartAgent(r, content) /\ NotStep
    \/ \E d \in Decisions : Decide(d) /\ NotStep
    \/ ExecuteAction /\ NotStep
    \/ CheckStep /\ NotStep

SpecStep == Init /\ [][NextStep]_vars

NotApi ==
    UNCHANGED <<scoreVars, workerVars, liveVars, harnessVars, wireVars, rowVars,
                stepVars, launchVars, reportVars, loopVars, castVars, feedVars>>

NextApi ==
    \/ \E wrapper \in Wrappers : ApiCall(wrapper) /\ NotApi
    \/ \E response \in FetchOutcomes : ApiSettle(response) /\ NotApi

SpecApi == Init /\ [][NextApi]_vars

NotReport ==
    UNCHANGED <<scoreVars, workerVars, liveVars, harnessVars, wireVars, rowVars,
                stepVars, launchVars, apiVars, loopVars, castVars, feedVars>>

NextReport ==
    \/ \E sevs \in ReportInputs : LoadReport(sevs) /\ NotReport

SpecReport == Init /\ [][NextReport]_vars

NotLoop ==
    UNCHANGED <<scoreVars, workerVars, liveVars, harnessVars, wireVars, rowVars,
                stepVars, launchVars, apiVars, reportVars, castVars, feedVars>>

NextLoop ==
    \/ RunStart /\ NotLoop
    \/ RunStartRaises /\ NotLoop
    \/ CaptureStateRaises /\ NotLoop
    \/ \E kind \in DecisionKinds : GetNextAction(kind) /\ NotLoop
    \/ \E raised \in BOOLEAN : RunExecuteAction(raised) /\ NotLoop
    \/ \E found, shot \in BOOLEAN : RunCheck(found, shot) /\ NotLoop
    \/ RunCheckRaises /\ NotLoop
    \/ RunClose /\ NotLoop
    \/ RunComplete /\ NotLoop

SpecLoop == Init /\ [][NextLoop]_vars

NotCast ==
    UNCHANGED <<scoreVars, workerVars, liveVars, harnessVars, wireVars, rowVars,
                stepVars, launchVars, apiVars, reportVars, loopVars, feedVars>>

NextCast ==
    \/ \E s \in BothScans : CastOpen(s) /\ NotCast
    \/ \E s \in BothScans, a \in AgentIds, type \in CastTypes :
            HandleAgentMessage(s, a, type) /\ NotCast

SpecCast == Init /\ [][NextCast]_vars

NextSessions ==
    \/ \E row \in SessionRows : SessionChanged(row) /\ NotLive
    \/ SessionDeleted /\ NotLive
    \/ \E rows \in SessionLists : SessionsFetched(rows) /\ NotLive

SpecSessions == Init /\ [][NextSessions]_vars

NotFeed ==
    UNCHANGED <<scoreVars, workerVars, liveVars, harnessVars, wireVars, rowVars,
                stepVars, launchVars, apiVars, reportVars, loopVars, castVars>>

NextFeed ==
    \/ \E agent \in FeedAgents, type \in {"SCREENSHOT", "INFO"} :
            FeedNewEvent(agent, type) /\ NotFeed
    \/ \E selected \in FeedAgents \cup {NoSelection} : FeedSelect(selected) /\ NotFeed

SpecFeed == Init /\ [][NextFeed]_vars

NextNetLog ==
    \/ NetRequestReceived /\ NotWire
    \/ NetOtherReceived /\ NotWire

SpecNetLog == Init /\ [][NextNetLog]_vars

\* the interval keeps calling fetchData while the view is mounted, queued
\* notifications are delivered, and the queries do not fail for ever
SpecRowsFair ==
    /\ SpecRows
    /\ WF_vars(FetchEvents /\ NotRows)
    /\ SF_vars(FetchFindings(FALSE) /\ NotRows)
    /\ SF_vars(FetchDone /\ NotRows)
    /\ WF_vars(DeliverInsert /\ NotRows)

-----------------------------------------------------------------------------
\* Properties of the risk score and the grade (SpecScore)

Count(fs, sev) == Cardinality({i \in 1..Len(fs) : fs[i] = sev})

FiveCritical == <<"CRITICAL", "CRITICAL", "CRITICAL", "CRITICAL", "CRITICAL">>

\* C1: the risk score of a run is max(0, 100 - sum of the severity weights of
\* its findings), with weights CRITICAL 25, HIGH 10, MEDIUM 3, LOW 1: one
\* CRITICAL and one HIGH give 65, no findings give 100, five CRITICAL give 0.
C1_RiskScoreFormula ==
    /\ risk_score = Max(0, 100 - (25 * Count(findings, "CRITICAL")
                                  + 10 * Count(findings, "HIGH")
                                  + 3 * Count(findings, "MEDIUM")
                                  + Count(findings, "LOW")))
    /\ risk_score \in 0..100
    /\ (findings = <<>> => risk_score = 100)
    /\ (findings \in {<<"CRITICAL", "HIGH">>, <<"HIGH", "CRITICAL">>}
            => risk_score = 65)
    /\ (findings = FiveCritical => risk_score = 0)

C1_Witness ==
    /\ findings = FiveCritical
    /\ risk_score = 0

\* C2: the grade is A for a score of at least 90, B for 75..89, C for 50..74,
\* D for 25..49 and F below 25; the boundary scores 90, 75, 50 and 25 take the
\* higher grade and 89, 74, 49 and 24 the lower one.
C2_GradeThresholds ==
    /\ \A s \in 0..100 :
        /\ (Grade(s) = "A") <=> (s >= 90)
        /\ (Grade(s) = "B") <=> (75 <= s /\ s < 90)
        /\ (Grade(s) = "C") <=> (50 <= s /\ s < 75)
        /\ (Grade(s) = "D") <=> (25 <= s /\ s < 50)
        /\ (Grade(s) = "F") <=> (s < 25)
    /\ <<Grade(90), Grade(75), Grade(50), Grade(25)>> = <<"A", "B", "C", "D">>
    /\ <<Grade(89), Grade(74), Grade(49), Grade(24)>> = <<"B", "C", "D", "F">>
    /\ (risk_grade = "A") <=> (risk_score >= 90)
    /\ (risk_grade = "B") <=> (75 <= risk_score /\ risk_score < 90)
    /\ (risk_grade = "C") <=> (50 <= risk_score /\ risk_score < 75)
    /\ (risk_grade = "D") <=> (25 <= risk_score /\ risk_score < 50)
    /\ (risk_grade = "F") <=> (risk_score < 25)

\* three CRITICAL findings: the score sits on the boundary 25
C2_Witness ==
    /\ risk_score = 25
    /\ risk_grade = "D"

Permuted(fs, p) == [i \in 1..Len(fs) |-> fs[p[i]]]

\* C23: every permutation of the finding list has the score and the grade of
\* the list, and evaluating the unchanged list again gives the score and the
\* grade the report holds.
C23_OrderIndependent ==
    /\ \A p \in Permutations(1..Len(findings)) :
        /\ RiskScore(Permuted(findings, p)) = risk_score
        /\ Grade(RiskScore(Permuted(findings, p))) = risk_grade
    /\ RiskScore(findings) = risk_score
    /\ Grade(RiskScore(findings)) = risk_grade

\* a list whose findings differ in severity, found lightest first
C23_Witness ==
    /\ findings = <<"LOW", "MEDIUM", "HIGH", "CRITICAL">>
    /\ risk_score = 61
    /\ risk_grade = "C"

-----------------------------------------------------------------------------
\* Properties of the phased worker (SpecWorker, SpecWorkerFair)

SessStarted(a) == sess[a] # "QUEUED"

SessTerminal(a) == sess[a] \in TerminalStatuses

\* C3: spider starts before every phase-2 agent; red_team starts only after
\* every phase-2 agent has reached a terminal status; llm_analysis starts only
\* after red_team has; the two LLM agents never run at the same time.
C3_PhaseOrder ==
    /\ \A a \in Phase2Agents : SessStarted(a) => SessStarted("spider")
    /\ SessStarted("red_team") => \A a \in Phase2Agents : SessTerminal(a)
    /\ SessStarted("llm_analysis") => SessTerminal("red_team")
    /\ ~(sess["red_team"] = "RUNNING" /\ sess["llm_analysis"] = "RUNNING")

C3_Witness ==
    /\ sess["llm_analysis"] = "RUNNING"
    /\ sess["red_team"] = "COMPLETED"

\* C4: an agent that fails ends FAILED and the run is not aborted: the run is
\* never FAILED, it leaves RUNNING only by completing or by a user stop, and
\* from a failed agent the run goes on until every agent is terminal (or the
\* user stops it).
C4_FailureIsolated ==
    /\ [](runStatus # "FAILED")
    /\ []((\E a \in Roster : sess[a] = "FAILED" /\ runStatus = "RUNNING")
            => <>(runStatus = "STOPPED"
                  \/ (runStatus = "COMPLETED"
                      /\ \A b \in Roster : SessTerminal(b))))

C4_Witness ==
    /\ runStatus = "COMPLETED"
    /\ sess["spider"] = "FAILED"
    /\ sess["sqli"] = "FAILED"
    /\ \A b \in Roster \ {"spider", "sqli"} : sess[b] = "COMPLETED"

-----------------------------------------------------------------------------
\* Properties of the harness and its dashboard (Spec)

Live(a) == apc[a] \notin Ended

C6_OneTerminalEvent ==
    \A a \in AgentIds :
        (sent[a].started /\ apc[a] \in {"done", "crashed", "exited"})
            => sent[a].terminal = 1

\* C7: once the dashboard shows an agent as complete or error, no later event
\* changes that agent's status.
C7_TerminalStatusSticks ==
    [][\A a \in AgentIds :
         ws.agents[a] \in {"complete", "error"}
             => ws.agents'[a] = ws.agents[a]]_vars

C10_StopObserved ==
    (isStopping /\ lastStop = [id |-> ScanA, status |-> "running"])
        => /\ \A a \in AgentIds : ~Live(a)
           /\ scanStatus = "stopped"
           /\ ws.scanStatus = "stopped"

-----------------------------------------------------------------------------
\* Properties of the live view (SpecLive)

Shown(list, id) == list[FindIndex(list, id)]

\* C8: the progress the live view shows for a running session never
\* decreases, whatever the interleaving of notifications and poll responses.
C8_ProgressNeverDecreases ==
    [][\A id \in SessionIds :
         (/\ FindIndex(sessions, id) # 0
          /\ FindIndex(sessions', id) # 0
          /\ Shown(sessions, id).status = "RUNNING"
          /\ Shown(sessions', id).status = "RUNNING")
             => Shown(sessions', id).progress >= Shown(sessions, id).progress]_vars

-----------------------------------------------------------------------------
\* Properties of the event stream and the socket client (SpecWire)

OfAgent(log, a) == SelectSeq(log, LAMBDA e : e.agentId = a)

\* the last event an agent sent in this step, if the relay passed it on
Relayed(a) ==
    /\ Len(sentLog'[a]) = Len(sentLog[a]) + 1
    /\ csock = "open"

\* C11: the client's event log holds each agent's events in the order the
\* agent sent them, whatever the interleaving with other agents' events, and
\* all of them when none was lost; the log only grows at its end, by exactly
\* one entry per JSON event received and by none otherwise.
C11_EventOrder ==
    /\ [](\A a \in AgentIds :
            LET mine == OfAgent(client.events, a)
            IN /\ \A i, j \in 1..Len(mine) : i < j => mine[i].seq < mine[j].seq
               /\ \A i \in 1..Len(mine) : mine[i] = sentLog[a][mine[i].seq]
               /\ ~lost[a] => mine = sentLog[a])
    /\ [][IF \E a \in AgentIds : Relayed(a)
          THEN \E a \in AgentIds :
                  /\ Relayed(a)
                  /\ client'.events =
                        Append(client.events, sentLog'[a][Len(sentLog'[a])])
          ELSE client'.events = client.events]_vars

\* agent 1's three events are in the log with an event of agent 2 between them
C11_Witness ==
    /\ Len(OfAgent(client.events, 1)) = 3
    /\ OfAgent(client.events, 1) = sentLog[1]
    /\ \E i, j, k \in 1..Len(client.events) :
          /\ i < j /\ j < k
          /\ client.events[i].agentId = 1
          /\ client.events[j].agentId = 2
          /\ client.events[k].agentId = 1

History(st) ==
    <<st.scanStatus, st.agents, st.agentFindings, st.events, st.findings,
      st.networkRequests>>

\* C12: when the client's socket opens, fails or closes, or a new socket is
\* created, only the connected flag changes: scan status, agent states, event
\* log, findings and network-request log stay as they were.
C12_ConnectionFrame ==
    [][csock' # csock
          => /\ History(client') = History(client)
             /\ csock' = "open" => client'.connected
             /\ csock' = "closed" => ~client'.connected]_vars

\* a new socket after a close, with history accumulated before the close
C12_Witness ==
    /\ csock = "connecting"
    /\ client.events # <<>>
    /\ client.findings # <<>>
    /\ client.networkRequests # <<>>
    /\ \E a \in AgentIds : client.agents[a] # "idle"

RECURSIVE VulnsReported(_)
VulnsReported(log) ==
    IF log = <<>> THEN <<>>
    ELSE (IF Head(log).type = "vulnerability.found" THEN Head(log).data ELSE <<>>)
         \o VulnsReported(Tail(log))

RECURSIVE SumLen(_, _)
SumLen(lists, S) ==
    IF S = {} THEN 0
    ELSE LET a == CHOOSE x \in S : TRUE
         IN Len(lists[a]) + SumLen(lists, S \ {a})

\* C30: the client's aggregate findings list is as long as its per-agent
\* findings lists together, and each of its entries carries the id and role
\* of the agent whose list holds the vulnerability.
C30_AggregateConsistent ==
    /\ Len(client.findings) = SumLen(client.agentFindings, AgentIds)
    /\ \A i \in 1..Len(client.findings) :
        LET f == client.findings[i]
        IN /\ f.agentId \in AgentIds
           /\ f.role = AgentRole(f.agentId)
           /\ \E k \in 1..Len(client.agentFindings[f.agentId]) :
                client.agentFindings[f.agentId][k] = f.vuln

-----------------------------------------------------------------------------
\* Properties of the live view's finding and event lists (SpecRows)

NoDuplicate(list) ==
    \A i, j \in 1..Len(list) : list[i] = list[j] => i = j

InList(list, id) == \E i \in 1..Len(list) : list[i] = id

\* C13: whatever the interleaving of INSERT notifications and poll
\* responses, the live view's findings list and event list hold each row at
\* most once.
C13_NoDoubleCount ==
    /\ NoDuplicate(viewFindings)
    /\ NoDuplicate(viewEvents)

-----------------------------------------------------------------------------
\* Properties of an agent's iteration (SpecStep)

Executed == spc \in {"executed", "checked"}

\* C15: when the decision asks to navigate to a URL on another host than the
\* target's, the action executed leaves the page on the target's host and the
\* rejection is among the events of the iteration.
C15_DomainGuard ==
    (Executed /\ decision.action = "navigate" /\ decision.value.host # TargetHost)
        => /\ page.url.host = TargetHost
           /\ \E i \in 1..Len(stepEvents) : stepEvents[i] = "navigation.rejected"

\* C16: for the sqli role and a quote-based payload, a page identical to the
\* baseline yields no finding, even when the baseline holds a database
\* keyword; a page with a database-error signature the baseline did not have
\* yields a HIGH finding.
C16_BaselineDiff ==
    (spc = "checked" /\ role = "sqli" /\ AnyIn(SqlSyntax, decision.value.text))
        => /\ page.content = previous_state.html => vulnerability = NoVuln
           /\ (/\ AnyIn(sql_indicators, Lower(page.content))
               /\ ~AnyIn(sql_indicators, Lower(previous_state.html)))
                  => vulnerability.severity = "HIGH"

EscapedBack ==
    /\ HtmlEscape(decision.value.text) # decision.value.text
    /\ page.content = previous_state.html \o HtmlEscape(decision.value.text)
    /\ ~In(decision.value.text, previous_state.html)

-----------------------------------------------------------------------------
\* Properties of the launch views (SpecLaunch)

Replied == lpc = "idle" /\ outcome # NoReply

\* C19: after a start request that succeeded, the router is at the live view
\* of the returned id; after one that failed (no response, a non-success
\* response, a response without an id) the router has not moved, an alert is
\* shown and the launch control is out of its launching state.
C19_LaunchFlow ==
    Replied
        => IF outcome.kind = "ok_id"
           THEN route = LiveView(launchView, outcome.id)
           ELSE /\ route = LaunchRoute
                /\ alertShown
                /\ ~isStarting

WellFormed(u) ==
    /\ Len(u) >= 2
    /\ u[1] \in {"http://", "https://"}
    /\ \A i \in 2..Len(u) : u[i] # " "

\* C20: no launch view issues the start request for a target that is not a
\* well-formed HTTP/HTTPS URL.
C20_InvalidTargetNeverPosted == \A u \in posted : WellFormed(u)
-----------------------------------------------------------------------------
\* Properties of the API wrappers (SpecApi)

\* C21: a wrapper that got a non-success response throws an error holding the
\* response's status text; a wrapper returns only on a success response (the
\* parsed body for startScan and getScan, nothing for stopScan); a rejected
\* fetch is thrown on, and each wrapper call makes one fetch call.
C21_WrapperContract ==
    /\ apiFetches = apiCalls
    /\ apiPc = "settled"
        => /\ (apiResponse.kind = "response" /\ ~apiResponse.ok)
                => /\ apiResult.kind = "throw"
                   /\ \E i \in 1..Len(apiResult.message) :
                        apiResult.message[i] = apiResponse.statusText
           /\ apiResponse.kind = "rejected" => apiResult.kind = "throw"
           /\ apiResult.kind = "return"
                => /\ apiResponse.kind = "response" /\ apiResponse.ok
                   /\ apiResult.value =
                        IF apiCall = "stopScan" THEN "undefined"
                        ELSE ParseJson(apiResponse.body).value

\* stopScan got a 404 and threw with its status text
C21_Witness ==
    /\ apiPc = "settled"
    /\ apiCall = "stopScan"
    /\ apiResponse.kind = "response" /\ ~apiResponse.ok
    /\ apiResult = Thrown(<<"Failed to stop scan: ", "Not Found">>)
-----------------------------------------------------------------------------
\* Properties of the report page (SpecReport)

SeverityRank(sev) == CHOOSE k \in 1..4 : SeverityOrder[k] = sev

\* C22: the detailed findings come by severity, CRITICAL then HIGH then MEDIUM
\* then LOW, findings of one severity in their discovery order, and every
\* finding of the report comes exactly once.
C22_GroupedBySeverity ==
    /\ Len(detailed) = Len(reportFindings)
    /\ \A i \in 1..Len(reportFindings) :
        Cardinality({j \in 1..Len(detailed) : detailed[j] = reportFindings[i]}) = 1
    /\ \A i, j \in 1..Len(detailed) :
        i < j => \/ SeverityRank(detailed[i].severity)
                        < SeverityRank(detailed[j].severity)
                 \/ /\ detailed[i].severity = detailed[j].severity
                    /\ detailed[i].id < detailed[j].id

\* a LOW found first and two CRITICAL found after a HIGH
C22_Witness ==
    /\ reportFindings = ReportRows(<<"LOW", "HIGH", "CRITICAL", "CRITICAL">>)
    /\ detailed = <<[id |-> 3, severity |-> "CRITICAL"],
                    [id |-> 4, severity |-> "CRITICAL"],
                    [id |-> 2, severity |-> "HIGH"],
                    [id |-> 1, severity |-> "LOW"]>>
-----------------------------------------------------------------------------
\* Properties of the work loop (SpecLoop)

\* C24: the loop never starts an eleventh iteration, makes at most ten LLM
\* calls and executes at most ten actions, and when the agent's run is over
\* it has made exactly ten iterations, closed the browser and sent
\* agent.complete.
C24_TenIterations ==
    /\ iteration_count <= Iterations
    /\ llmCalls <= Iterations
    /\ actionCalls <= Iterations
    /\ completeSent => (iteration_count = Iterations /\ browser = "closed")
    /\ rpos \in {"ended", "aborted"}
        => /\ iteration_count = Iterations
           /\ browser = "closed"
           /\ completeSent

\* C25: an iteration whose LLM response fails validation executes no browser
\* action and sends no decision event and no finding, and the agent goes on:
\* it is at the head of the loop for the next iteration (or closes after the
\* tenth).
C25_InvalidDecisionIsNoOp ==
    /\ []((decisionKind \in DecisionKinds \ {"valid"})
        => /\ iterLog \cap {"agent.decision", "agent.action", "agent.error",
                            "vulnerability.found", "agent.screenshot"} = {}
           /\ rpos \in {"loop", "closed", "ended"})
    /\ [][(rpos = "loop" /\ decisionKind' \in DecisionKinds \ {"valid"}
            /\ iteration_count' = iteration_count + 1)
            => (rpos' = "loop" /\ actionCalls' = actionCalls)]_vars

\* the third iteration's response lacked a field, after two executed actions
C25_Witness ==
    /\ decisionKind = "missing_field"
    /\ iteration_count = 3
    /\ actionCalls = 2
    /\ rpos = "loop"
    /\ iterLog = {"agent.thinking", "agent.thought"}
-----------------------------------------------------------------------------
\* Properties of two scans at once (SpecCast)

\* C26: the client of a scan holds only events and findings of that scan, and
\* a message of the other scan leaves it as it was.
C26_ScanIsolation ==
    \A s \in BothScans :
        /\ \A i \in 1..Len(castClients[s].events) :
                castClients[s].events[i].scanId = s
        /\ \A i \in 1..Len(castClients[s].findings) :
                castClients[s].findings[i].vuln.scan = s
        /\ \A a \in AgentIds :
            \A i \in 1..Len(castClients[s].agentFindings[a]) :
                castClients[s].agentFindings[a][i].scan = s
-----------------------------------------------------------------------------
\* Properties of the session list under any notifications (SpecSessions)

\* C27: the session list holds at most one entry per session id and only
\* sessions of this run, and a notification for a session already in the list
\* replaces that entry where it is and leaves the other entries and their
\* positions alone.
C27_MergedById ==
    /\ [](/\ \A i, j \in 1..Len(sessions) :
                sessions[i].id = sessions[j].id => i = j
          /\ \A i \in 1..Len(sessions) : sessions[i] \in SessionRows)
    /\ [][\A row \in SessionRows :
            (FindIndex(sessions, row.id) # 0
             /\ sessions' = MergeSession(sessions, row))
                => /\ Len(sessions') = Len(sessions)
                   /\ \A i \in 1..Len(sessions) :
                        sessions'[i] = IF i = FindIndex(sessions, row.id)
                                       THEN row ELSE sessions[i]]_vars
-----------------------------------------------------------------------------
\* Properties of the browser feed (SpecFeed)

\* the newest screenshot among the events that pass the test, none if there is
\* no such screenshot
LatestShot(events, Wanted(_)) ==
    LET shots == SelectSeq(events,
                    LAMBDA e : e.event_type = "SCREENSHOT" /\ Wanted(e.agent_type))
    IN IF shots = <<>> THEN NoEntry ELSE ScreenshotEntry(Head(shots))

\* C29: the hero image is the latest screenshot of the selected agent, and
\* without a selection the most recent screenshot of all agents.
C29_HeroIsLatest ==
    heroScreenshot =
        IF selectedAgent # NoSelection
        THEN LatestShot(feedEvents, LAMBDA a : a = selectedAgent)
        ELSE LatestShot(feedEvents, LAMBDA a : TRUE)
-----------------------------------------------------------------------------
\* Properties of the network request log (SpecNetLog)

\* the payloads of the network.request events received, in arrival order
RequestsReceived ==
    LET reqs == SelectSeq(client.events, LAMBDA e : e.type = "network.request")
    IN [i \in 1..Len(reqs) |-> [agentId |-> reqs[i].agentId, seq |-> reqs[i].seq]]

\* C28: the network request log never holds more than 101 entries (the 100
\* kept and the one added), it is the most recent requests received, in
\* arrival order, and the request received last is its last entry.
C28_NetLogBounded ==
    /\ Len(client.networkRequests) <= NetLogKeep + 1
    /\ client.networkRequests = LastN(RequestsReceived, NetLogKeep + 1)
    /\ (client.events # <<>>
        /\ client.events[Len(client.events)].type = "network.request")
        => client.networkRequests[Len(client.networkRequests)].seq
                = Len(client.events)

\* more requests were received than the log keeps
C28_Witness ==
    /\ Len(RequestsReceived) = NetLogKeep + 3
    /\ Len(client.networkRequests) = NetLogKeep + 1
    /\ client.networkRequests[1].seq = 3

=============================================================================
